---- MODULE Spec2Model ----
(***************************************************************************)
(* Model of backend/server.py: the project record store, the handlers      *)
(* create_project, generate_floor_plans and select_plan, the generation    *)
(* client generate_floor_plan_ai with its Gemini -> OpenAI fallback, and   *)
(* the two evaluators check_compliance and estimate_materials.             *)
(*                                                                         *)
(* Conventions.                                                            *)
(*  - A Python str is a sequence of one-character strings, so that         *)
(*    str.lower(), `sub in s`, str.split and str.strip are computed.       *)
(*  - Optional[T] is a sequence of length 0 (None) or 1 (the value).       *)
(*  - Areas are fixed point, in tenths of a square metre (AreaScale);      *)
(*    material quantities and costs are in thousandths (QtyScale), which   *)
(*    makes every formula of estimate_materials exact on these inputs.     *)
(*  - A call returns a record [raised |-> <exception name or "none">,      *)
(*    value |-> <the returned value>].                                     *)
(***************************************************************************)
EXTENDS Integers, Sequences, FiniteSets, TLC

(***************************************************************************)
(* Python primitives                                                       *)
(***************************************************************************)
None == << >>

Some(v) == << v >>

IsNone(o) == Len(o) = 0

Upper == << "A","B","C","D","E","F","G","H","I","J","K","L","M",
            "N","O","P","Q","R","S","T","U","V","W","X","Y","Z" >>

Lower == << "a","b","c","d","e","f","g","h","i","j","k","l","m",
            "n","o","p","q","r","s","t","u","v","w","x","y","z" >>

\* one character of str.lower()
LowerChar(c) ==
  IF \E i \in 1..Len(Upper) : Upper[i] = c
    THEN Lower[CHOOSE i \in 1..Len(Upper) : Upper[i] = c]
    ELSE c

\* str.lower()
lower(s) == [i \in 1..Len(s) |-> LowerChar(s[i])]

\* Python `sub in s` on strings
Contains(sub, s) ==
  \E i \in 1..(Len(s) - Len(sub) + 1) : SubSeq(s, i, i + Len(sub) - 1) = sub

\* Python list indexing seq[i]: negative indices count from the end,
\* anything outside -len .. len-1 raises IndexError
IndexOk(seq, i) == -Len(seq) <= i /\ i < Len(seq)

PyIndex(seq, i) == IF i >= 0 THEN seq[i + 1] ELSE seq[Len(seq) + i + 1]

AreaScale == 10

QtyScale == 1000

Digit == << "0","1","2","3","4","5","6","7","8","9" >>

RECURSIVE Digits(_)
Digits(n) == IF n < 10 THEN << Digit[n + 1] >>
                       ELSE Digits(n \div 10) \o << Digit[(n % 10) + 1] >>

\* f"{area:.1f}" for an area held in tenths
Fmt1f(a) == Digits(a \div AreaScale) \o << "." >> \o << Digit[(a % AreaScale) + 1] >>

(***************************************************************************)
(* Names and texts that occur in the inputs                                *)
(***************************************************************************)
Bedroom1 == << "B","e","d","r","o","o","m"," ","1" >>

MasterBedroom == << "M","A","S","T","E","R"," ","B","E","D","R","O","O","M" >>

LivingRoom == << "L","i","v","i","n","g"," ","R","o","o","m" >>

Kitchen == << "K","i","t","c","h","e","n" >>

bedroom == << "b","e","d","r","o","o","m" >>

kitchen == << "k","i","t","c","h","e","n" >>

vastu == << "v","a","s","t","u" >>

VastuNorth == << "v","a","s","t","u","_","n","o","r","t","h" >>

VastuUpper == << "V","A","S","T","U" >>

Islamic == << "i","s","l","a","m","i","c" >>

General == << "G","e","n","e","r","a","l" >>

NBC == << "N","B","C" >>

(***************************************************************************)
(* Models: ComplianceCheck, MaterialItem, FloorPlanData, ProjectConfig     *)
(***************************************************************************)
ComplianceCheck(category, rule, status, message, suggestion) ==
  [category |-> category, rule |-> rule, status |-> status,
   message |-> message, suggestion |-> suggestion]

MaterialItem(name, quantity, unit, estimatedCost) ==
  [name |-> name, quantity |-> quantity, unit |-> unit,
   estimatedCost |-> estimatedCost]

\* svgContent and dimensions are carried by no property below and are left out
FloorPlanData(rooms, totalArea) == [rooms |-> rooms, totalArea |-> totalArea]

CulturalParameters(type) == [type |-> type]

\* the two fields of ProjectConfig that the evaluators read
ProjectConfig(culturalParams, municipalCode) ==
  [culturalParams |-> culturalParams, municipalCode |-> municipalCode]

Project(config, floorPlans, selectedPlanIndex, complianceChecks, materials) ==
  [config |-> config, floorPlans |-> floorPlans,
   selectedPlanIndex |-> selectedPlanIndex,
   complianceChecks |-> complianceChecks, materials |-> materials]

Ok(v) == [raised |-> "none", value |-> v]

Raise(e) == [raised |-> e, value |-> << >>]

(***************************************************************************)
(* check_compliance                                                        *)
(***************************************************************************)
MinBedroomArea == 9

\* doorway_width = 0.9 and its threshold 0.85, in hundredths of a metre
DoorwayWidth == 90

DoorwayMin == 85

\* `config.municipalCode or "General"`: None and "" are both falsy
MunicipalCodeOf(config) ==
  IF IsNone(config.municipalCode) \/ Len(config.municipalCode[1]) = 0
    THEN General
    ELSE config.municipalCode[1]

\* RoomCheck with the area compared by <= instead of <
RoomCheck_Inclusive(room) ==
  IF Contains(bedroom, lower(room.name)) /\ room.area <= MinBedroomArea * AreaScale
    THEN ComplianceCheck("regulatory", "Minimum Bedroom Size", "failed",
           room.name \o << " is " >> \o Fmt1f(room.area)
                     \o << "m2 (minimum 9m2 required)" >>,
           Some("Increase bedroom dimensions to meet code requirements"))
    ELSE ComplianceCheck("regulatory", "Minimum Room Size", "passed",
           room.name \o << " meets size requirements (" >> \o Fmt1f(room.area)
                     \o << "m2)" >>,
           None)

\* the body of `for room in plan.rooms`
RoomCheck(room) ==
  IF Contains(bedroom, lower(room.name)) /\ room.area < MinBedroomArea * AreaScale
    THEN ComplianceCheck("regulatory", "Minimum Bedroom Size", "failed",
           room.name \o << " is " >> \o Fmt1f(room.area)
                     \o << "m2 (minimum 9m2 required)" >>,
           Some("Increase bedroom dimensions to meet code requirements"))
    ELSE ComplianceCheck("regulatory", "Minimum Room Size", "passed",
           room.name \o << " meets size requirements (" >> \o Fmt1f(room.area)
                     \o << "m2)" >>,
           None)

RoomChecks(rooms) == [i \in 1..Len(rooms) |-> RoomCheck(rooms[i])]

SetbackCheck(config) ==
  << ComplianceCheck("regulatory", "Building Setbacks", "passed",
       << "Setbacks comply with " >> \o MunicipalCodeOf(config)
                                    \o << " regulations" >>,
       None) >>

\* IsVastu without the .lower()
IsVastu_CaseSensitive(config) ==
  /\ ~IsNone(config.culturalParams)
  /\ ~IsNone(config.culturalParams[1].type)
  /\ Len(config.culturalParams[1].type[1]) > 0
  /\ Contains(vastu, config.culturalParams[1].type[1])

\* `if config.culturalParams and config.culturalParams.type:` then
\* `if 'vastu' in cultural_type.lower():`
IsVastu(config) ==
  /\ ~IsNone(config.culturalParams)
  /\ ~IsNone(config.culturalParams[1].type)
  /\ Len(config.culturalParams[1].type[1]) > 0
  /\ Contains(vastu, lower(config.culturalParams[1].type[1]))

\* kitchen_rooms is non-empty
HasKitchen(rooms) ==
  \E i \in 1..Len(rooms) : Contains(kitchen, lower(rooms[i].name))

CulturalChecks(config, rooms) ==
  IF IsVastu(config)
    THEN (IF HasKitchen(rooms)
            THEN << ComplianceCheck("cultural", "Kitchen Placement (Vastu)", "passed",
                      << "Kitchen positioned in South-East quadrant (Agni corner)" >>,
                      None) >>
            ELSE << >>)
         \o << ComplianceCheck("cultural", "Main Entrance (Vastu)", "passed",
                 << "Entrance facing North-East for prosperity" >>, None) >>
    ELSE << >>

\* AccessibilityChecks with the comparison turned round
AccessibilityChecks_Flipped ==
  IF DoorwayWidth <= DoorwayMin
    THEN << ComplianceCheck("accessibility", "Doorway Width (ADA)", "passed",
              << "All doorways are 0.9m wide (minimum 0.85m)" >>, None) >>
    ELSE << ComplianceCheck("accessibility", "Doorway Width (ADA)", "warning",
              << "Some doorways are 0.9m (0.85m recommended)" >>,
              Some("Consider widening doorways for accessibility")) >>

AccessibilityChecks ==
  IF DoorwayWidth >= DoorwayMin
    THEN << ComplianceCheck("accessibility", "Doorway Width (ADA)", "passed",
              << "All doorways are 0.9m wide (minimum 0.85m)" >>, None) >>
    ELSE << ComplianceCheck("accessibility", "Doorway Width (ADA)", "warning",
              << "Some doorways are 0.9m (0.85m recommended)" >>,
              Some("Consider widening doorways for accessibility")) >>

\* PlanChecks with the cultural block placed before the setback check
PlanChecks_CulturalFirst(config, plan) ==
  RoomChecks(plan.rooms) \o CulturalChecks(config, plan.rooms)
    \o SetbackCheck(config) \o AccessibilityChecks

\* room['name'] and room['area'] are there for every room of the loop
RoomKeysOk(rooms) ==
  \A i \in 1..Len(rooms) : { "name", "area" } \subseteq DOMAIN rooms[i]

\* the checks of one plan, in the order the function appends them
PlanChecks(config, plan) ==
  RoomChecks(plan.rooms) \o SetbackCheck(config)
    \o CulturalChecks(config, plan.rooms) \o AccessibilityChecks

\* check_compliance indexing floorPlans before testing it for emptiness
check_compliance_IndexFirst(project) ==
  IF ~IndexOk(project.floorPlans, project.selectedPlanIndex)
    THEN Raise("IndexError")
    ELSE IF ~RoomKeysOk(PyIndex(project.floorPlans, project.selectedPlanIndex).rooms)
      THEN Raise("KeyError")
      ELSE Ok(PlanChecks(project.config,
                         PyIndex(project.floorPlans, project.selectedPlanIndex)))

check_compliance(project) ==
  IF Len(project.floorPlans) = 0
    THEN Ok(<< >>)
    ELSE IF ~IndexOk(project.floorPlans, project.selectedPlanIndex)
      THEN Raise("IndexError")
      ELSE IF ~RoomKeysOk(PyIndex(project.floorPlans, project.selectedPlanIndex).rooms)
        THEN Raise("KeyError")
        ELSE Ok(PlanChecks(project.config,
                           PyIndex(project.floorPlans, project.selectedPlanIndex)))

(***************************************************************************)
(* estimate_materials                                                      *)
(***************************************************************************)
\* an area in tenths as a quantity in thousandths
AreaQty(a) == a * (QtyScale \div AreaScale)

\* PlanMaterials with the paint quantity taken from the floor area alone
PlanMaterials_PaintFloorOnly(plan) ==
  LET total_area      == AreaQty(plan.totalArea)
      concrete_volume == (total_area * 15) \div 100
      num_rooms       == Len(plan.rooms)
      wall_area       == num_rooms * 10 * 3
      bricks_needed   == wall_area * 50 * QtyScale
      steel_weight    == total_area * 8
      cement_bags     == (total_area * 4) \div 10
      paintable_area  == total_area
  IN << MaterialItem("Ready-Mix Concrete (M25)", concrete_volume, "m3",
                     concrete_volume * 5500),
        MaterialItem("Clay Bricks (Standard)", bricks_needed, "units",
                     bricks_needed * 8),
        MaterialItem("TMT Steel Bars (Fe500)", steel_weight, "kg",
                     steel_weight * 65),
        MaterialItem("Cement (OPC 53 Grade)", cement_bags, "bags",
                     cement_bags * 450),
        MaterialItem("Ceramic Floor Tiles (600x600mm)", total_area, "m2",
                     total_area * 450),
        MaterialItem("Interior Emulsion Paint", paintable_area \div 12, "liters",
                     (paintable_area \div 12) * 350),
        MaterialItem("Wooden Doors with Frame", (num_rooms + 2) * QtyScale, "units",
                     (num_rooms + 2) * QtyScale * 15000),
        MaterialItem("UPVC Windows with Glass", (num_rooms * 2) * QtyScale, "units",
                     (num_rooms * 2) * QtyScale * 8000) >>

PlanMaterials(plan) ==
  LET total_area      == AreaQty(plan.totalArea)
      concrete_volume == (total_area * 15) \div 100
      num_rooms       == Len(plan.rooms)
      wall_area       == num_rooms * 10 * 3
      bricks_needed   == wall_area * 50 * QtyScale
      steel_weight    == total_area * 8
      cement_bags     == (total_area * 4) \div 10
      paintable_area  == total_area * 3
  IN << MaterialItem("Ready-Mix Concrete (M25)", concrete_volume, "m3",
                     concrete_volume * 5500),
        MaterialItem("Clay Bricks (Standard)", bricks_needed, "units",
                     bricks_needed * 8),
        MaterialItem("TMT Steel Bars (Fe500)", steel_weight, "kg",
                     steel_weight * 65),
        MaterialItem("Cement (OPC 53 Grade)", cement_bags, "bags",
                     cement_bags * 450),
        MaterialItem("Ceramic Floor Tiles (600x600mm)", total_area, "m2",
                     total_area * 450),
        MaterialItem("Interior Emulsion Paint", paintable_area \div 12, "liters",
                     (paintable_area \div 12) * 350),
        MaterialItem("Wooden Doors with Frame", (num_rooms + 2) * QtyScale, "units",
                     (num_rooms + 2) * QtyScale * 15000),
        MaterialItem("UPVC Windows with Glass", (num_rooms * 2) * QtyScale, "units",
                     (num_rooms * 2) * QtyScale * 8000) >>

estimate_materials(project) ==
  IF Len(project.floorPlans) = 0
    THEN Ok(<< >>)
    ELSE IF ~IndexOk(project.floorPlans, project.selectedPlanIndex)
      THEN Raise("IndexError")
      ELSE Ok(PlanMaterials(PyIndex(project.floorPlans, project.selectedPlanIndex)))

(***************************************************************************)
(* generate_floor_plan_ai: prompt, fence stripping, JSON decoding and the  *)
(* conversion to FloorPlanData                                             *)
(***************************************************************************)
NoneText == << "N","o","n","e" >>

\* the parts of the f-string prompt that vary with the modelled config
Prompt(config) ==
  [culturalPreferences |->
     IF IsNone(config.culturalParams) \/ IsNone(config.culturalParams[1].type)
       THEN NoneText
       ELSE config.culturalParams[1].type[1],
   municipalCode |-> MunicipalCodeOf(config)]

GeminiCall(prompt) == [provider |-> "gemini", system |-> None, prompt |-> prompt]

OpenAICall(prompt) ==
  [provider |-> "openai",
   system |-> Some("You are an expert architectural AI. Always respond with valid JSON only."),
   prompt |-> prompt]

\* the backquote character
BackQuote == "BACKQUOTE"

Fence == << BackQuote, BackQuote, BackQuote >>

FenceJson == Fence \o << "j","s","o","n" >>

Whitespace == { " ", "\n" }

\* index of the first occurrence of sep in s, 0 if there is none
Find(sep, s) ==
  IF Contains(sep, s)
    THEN CHOOSE i \in 1..(Len(s) - Len(sep) + 1) :
           /\ SubSeq(s, i, i + Len(sep) - 1) = sep
           /\ \A j \in 1..(i - 1) : SubSeq(s, j, j + Len(sep) - 1) # sep
    ELSE 0

\* s.split(sep)[0]
SplitHead(sep, s) ==
  IF Find(sep, s) = 0 THEN s ELSE SubSeq(s, 1, Find(sep, s) - 1)

\* what follows the first occurrence of sep (sep occurs in s)
SplitRest(sep, s) == SubSeq(s, Find(sep, s) + Len(sep), Len(s))

\* s.split(sep)[1], for an s that contains sep
SplitSecond(sep, s) == SplitHead(sep, SplitRest(sep, s))

RECURSIVE lstrip(_)
lstrip(s) == IF Len(s) > 0 /\ s[1] \in Whitespace THEN lstrip(Tail(s)) ELSE s

RECURSIVE rstrip(_)
rstrip(s) ==
  IF Len(s) > 0 /\ s[Len(s)] \in Whitespace THEN rstrip(SubSeq(s, 1, Len(s) - 1)) ELSE s

strip(s) == rstrip(lstrip(s))

\* "Clean markdown code blocks if present"
CleanFences(result_text) ==
  IF Contains(FenceJson, result_text)
    THEN strip(SplitHead(Fence, SplitSecond(FenceJson, result_text)))
    ELSE IF Contains(Fence, result_text)
      THEN strip(SplitHead(Fence, SplitSecond(Fence, result_text)))
      ELSE result_text

\* A JSON document inside a response text is one symbol of the text; these
\* are the documents the providers can send and the values they decode to.
GeoRoom(name, area) ==
  [name |-> name, area |-> area, x |-> 0, y |-> 0, width |-> 3, height |-> 3]

LayoutA ==
  [name |-> "A", description |-> "compact", totalArea |-> 280,
   rooms |-> << GeoRoom(Bedroom1, 80), GeoRoom(LivingRoom, 200) >>]

LayoutB ==
  [name |-> "B", description |-> "open", totalArea |-> 1000,
   rooms |-> << GeoRoom(Kitchen, 85) >>]

LayoutNoRooms == [name |-> "C", description |-> "bare", totalArea |-> 500]

LayoutNoGeometry ==
  [name |-> "D", description |-> "flat", totalArea |-> 500,
   rooms |-> << [name |-> Kitchen, area |-> 85] >>]

LayoutNoArea ==
  [name |-> "E", description |-> "unmeasured", totalArea |-> 500,
   rooms |-> << [name |-> LivingRoom, x |-> 0, y |-> 0, width |-> 4, height |-> 5] >>]

JsonDict(fields) == [type |-> "dict", val |-> fields]

JsonList(items) == [type |-> "list", val |-> items]

DocNames ==
  { "doc:two", "doc:one", "doc:empty", "doc:list", "doc:norooms", "doc:nogeometry",
    "doc:noarea" }

DocValue(d) ==
  CASE d = "doc:two"        -> JsonDict([layouts |-> << LayoutA, LayoutB >>])
    [] d = "doc:one"        -> JsonDict([layouts |-> << LayoutB >>])
    [] d = "doc:empty"      -> JsonDict([note |-> "no layouts"])
    [] d = "doc:list"       -> JsonList(<< >>)
    [] d = "doc:norooms"    -> JsonDict([layouts |-> << LayoutA, LayoutNoRooms >>])
    [] d = "doc:nogeometry" -> JsonDict([layouts |-> << LayoutNoGeometry >>])
    [] d = "doc:noarea"     -> JsonDict([layouts |-> << LayoutB, LayoutNoArea >>])

\* a JSON document with three backquotes inside one of its strings, as in
\* {"layouts": [], "note": "..."}: the text before them, them, the text after
QuotedFenceDoc == << "doc:quoted:head" >> \o Fence \o << "doc:quoted:tail" >>

\* json.loads: surrounding whitespace is accepted, anything else around or
\* instead of one document is a JSONDecodeError
json_loads(text) ==
  IF Len(strip(text)) = 1 /\ strip(text)[1] \in DocNames
    THEN Ok(DocValue(strip(text)[1]))
    ELSE IF strip(text) = QuotedFenceDoc
      THEN Ok(JsonDict([layouts |-> << >>, note |-> "three backquotes"]))
      ELSE Raise("JSONDecodeError")

\* the body of either try block once the provider call has ended:
\* the text is taken from the response, cleaned and decoded
Attempt(response) ==
  IF response.raised # "none"
    THEN response
    ELSE json_loads(CleanFences(response.value))

\* the key lookups of generate_svg_from_layout
generate_svg_from_layout(layout) ==
  LET rooms == IF "rooms" \in DOMAIN layout THEN layout.rooms ELSE << >> IN
  IF \A i \in 1..Len(rooms) :
       { "x", "y", "width", "height", "name" } \subseteq DOMAIN rooms[i]
    THEN Ok("svg")
    ELSE Raise("KeyError")

\* "Convert to FloorPlanData": runs after, and outside, both try blocks
ConvertLayouts(result) ==
  IF result.type # "dict"
    THEN Raise("AttributeError")
    ELSE
      LET layouts == IF "layouts" \in DOMAIN result.val THEN result.val.layouts ELSE << >>
          bad(layout) ==
            \/ generate_svg_from_layout(layout).raised # "none"
            \/ "rooms" \notin DOMAIN layout
            \/ "totalArea" \notin DOMAIN layout
      IN IF \E i \in 1..Len(layouts) : bad(layouts[i])
           THEN Raise("KeyError")
           ELSE Ok([i \in 1..Len(layouts) |->
                      FloorPlanData(layouts[i].rooms, layouts[i].totalArea)])

GenerationError == "HTTPException(500, AI generation failed)"

NotFound == "HTTPException(404, Project not found)"

(***************************************************************************)
(* The record store and the handlers.  db is the projects collection,      *)
(* holding at most one document; req[r] is the handler invocation that     *)
(* request slot r is running, with its local variables.  A handler step    *)
(* runs from one awaited store or provider call to the next.               *)
(***************************************************************************)
VARIABLES db, req, evProject, evChecks, evMaterials, fcInput, fcOut

vars == << db, req, evProject, evChecks, evMaterials, fcInput, fcOut >>

evVars == << evProject, evChecks, evMaterials >>

fcVars == << fcInput, fcOut >>

MaxPlans == 2

Pending == [raised |-> "pending", value |-> << >>]

Req == { "r1", "r2" }

\* the slots that take requests when requests are served one at a time
Serving == { "r1" }

\* plan_index values a caller sends
PlanIndexArgs == (0 - 1)..MaxPlans

CreateConfigs ==
  { ProjectConfig(None, None),
    ProjectConfig(Some(CulturalParameters(Some(VastuNorth))), Some(NBC)) }

PlainOne == << "doc:one" >>

FencedJsonTwo ==
  << "H","i","\n" >> \o FenceJson \o << "\n", "doc:two", "\n" >> \o Fence

FencedBareEmpty == Fence \o << "\n", "doc:empty", "\n" >> \o Fence

Prose == << "S","o","r","r","y" >>

\* what a provider call can end with: an exception, or a response text
ProviderResponses ==
  { Raise("APIError"), Ok(Prose), Ok(PlainOne), Ok(FencedJsonTwo),
    Ok(FencedBareEmpty), Ok(<< "doc:list" >>), Ok(<< "doc:norooms" >>),
    Ok(<< "doc:nogeometry" >>), Ok(<< "doc:noarea" >>) }

Forms == { "plain", "json", "bare" }

\* no model output is under study
NoFenceInput == [content |-> << >>, before |-> << >>, after |-> << >>]

NoFenceOut == [f \in Forms |-> Pending]

Idle ==
  [pc |-> "idle", op |-> "none", plan_index |-> 0, project |-> None,
   calls |-> << >>, primary |-> Pending, secondary |-> Pending,
   floor_plans |-> None, compliance_checks |-> << >>, materials |-> << >>,
   outcome |-> Pending, writes |-> 0]

Done(l, outcome) == [l EXCEPT !.pc = "done", !.outcome = outcome]

Init ==
  /\ db = None
  /\ req = [r \in Req |-> Idle]
  /\ evProject = Project(ProjectConfig(None, None), << >>, 0, << >>, << >>)
  /\ evChecks = Pending
  /\ evMaterials = Pending
  /\ fcInput = NoFenceInput
  /\ fcOut = NoFenceOut

\* POST /projects
create_project(r, config) ==
  /\ req[r].pc = "idle"
  /\ db = None
  /\ db' = Some(Project(config, << >>, 0, << >>, << >>))
  /\ UNCHANGED << req, evVars, fcVars >>

\* generate_floor_plan_ai past its try blocks, then the rest of
\* generate_floor_plans up to its update_one
AfterGeneration(l, result) ==
  LET conv == ConvertLayouts(result) IN
  IF conv.raised # "none"
    THEN Done(l, Raise(conv.raised))
    ELSE
      LET project == [l.project[1] EXCEPT !.floorPlans = conv.value,
                                          !.selectedPlanIndex = 0]
          cc == check_compliance(project)
          ms == estimate_materials(project)
      IN IF cc.raised # "none" THEN Done(l, Raise(cc.raised))
         ELSE IF ms.raised # "none" THEN Done(l, Raise(ms.raised))
         ELSE [l EXCEPT !.pc = "g_update", !.project = Some(project),
                        !.floor_plans = Some(conv.value),
                        !.compliance_checks = cc.value, !.materials = ms.value]

\* generate_floor_plans: find_one, then the call to the primary provider
GenerateFind(r) ==
  /\ req[r].pc = "idle"
  /\ req' = [req EXCEPT ![r] =
       IF IsNone(db)
         THEN Done([@ EXCEPT !.op = "generate"], Raise(NotFound))
         ELSE [@ EXCEPT !.pc = "gemini", !.op = "generate", !.project = db,
                        !.calls = << GeminiCall(Prompt(db[1].config)) >>]]
  /\ UNCHANGED << db, evVars, fcVars >>

\* GeminiReturns calling the secondary provider whatever the primary gave
GeminiReturns_AlwaysFallsBack(r, response) ==
  /\ req[r].pc = "gemini"
  /\ LET l == [req[r] EXCEPT !.primary = response] IN
     req' = [req EXCEPT ![r] =
       [l EXCEPT !.pc = "openai",
                 !.calls = Append(@, OpenAICall(Prompt(l.project[1].config)))]]
  /\ UNCHANGED << db, evVars, fcVars >>

\* the primary provider's call ends
GeminiReturns(r, response) ==
  /\ req[r].pc = "gemini"
  /\ LET l == [req[r] EXCEPT !.primary = response] IN
     req' = [req EXCEPT ![r] =
       IF Attempt(response).raised = "none"
         THEN AfterGeneration(l, Attempt(response).value)
         ELSE [l EXCEPT !.pc = "openai",
                        !.calls = Append(@, OpenAICall(Prompt(l.project[1].config)))]]
  /\ UNCHANGED << db, evVars, fcVars >>

\* OpenAIReturns degrading to an empty layout list when the attempt fails
OpenAIReturns_Swallows(r, response) ==
  /\ req[r].pc = "openai"
  /\ LET l == [req[r] EXCEPT !.secondary = response] IN
     req' = [req EXCEPT ![r] =
       IF Attempt(response).raised = "none"
         THEN AfterGeneration(l, Attempt(response).value)
         ELSE AfterGeneration(l, JsonDict([layouts |-> << >>]))]
  /\ UNCHANGED << db, evVars, fcVars >>

\* the secondary provider's call ends
OpenAIReturns(r, response) ==
  /\ req[r].pc = "openai"
  /\ LET l == [req[r] EXCEPT !.secondary = response] IN
     req' = [req EXCEPT ![r] =
       IF Attempt(response).raised = "none"
         THEN AfterGeneration(l, Attempt(response).value)
         ELSE Done(l, Raise(GenerationError))]
  /\ UNCHANGED << db, evVars, fcVars >>

\* generate_floor_plans: update_one and the response
GenerateUpdate(r) ==
  /\ req[r].pc = "g_update"
  /\ db' = IF IsNone(db) THEN db
           ELSE Some([db[1] EXCEPT !.floorPlans = req[r].floor_plans[1],
                                   !.selectedPlanIndex = 0,
                                   !.complianceChecks = req[r].compliance_checks,
                                   !.materials = req[r].materials])
  /\ req' = [req EXCEPT ![r] =
       Done([@ EXCEPT !.writes = @ + 1], Ok(req[r].floor_plans[1]))]
  /\ UNCHANGED << evVars, fcVars >>

\* select_plan: the first update_one, which stores plan_index
SelectUpdateIndex(r, plan_index) ==
  /\ req[r].pc = "idle"
  /\ db' = IF IsNone(db) THEN db
           ELSE Some([db[1] EXCEPT !.selectedPlanIndex = plan_index])
  /\ req' = [req EXCEPT ![r] =
       [@ EXCEPT !.pc = "s_find", !.op = "select", !.plan_index = plan_index,
                 !.writes = @ + 1]]
  /\ UNCHANGED << evVars, fcVars >>

\* select_plan: find_one, then the recalculation
SelectFind(r) ==
  /\ req[r].pc = "s_find"
  /\ req' = [req EXCEPT ![r] =
       IF IsNone(db)
         THEN Done(@, Raise("TypeError"))
         ELSE
           LET project == [db[1] EXCEPT !.selectedPlanIndex = req[r].plan_index]
               cc == check_compliance(project)
               ms == estimate_materials(project)
           IN IF cc.raised # "none" THEN Done(@, Raise(cc.raised))
              ELSE IF ms.raised # "none" THEN Done(@, Raise(ms.raised))
              ELSE [@ EXCEPT !.pc = "s_update", !.project = Some(project),
                             !.compliance_checks = cc.value, !.materials = ms.value]]
  /\ UNCHANGED << db, evVars, fcVars >>

\* select_plan: the second update_one and the response
SelectUpdate(r) ==
  /\ req[r].pc = "s_update"
  /\ db' = IF IsNone(db) THEN db
           ELSE Some([db[1] EXCEPT !.complianceChecks = req[r].compliance_checks,
                                   !.materials = req[r].materials])
  /\ req' = [req EXCEPT ![r] = Done([@ EXCEPT !.writes = @ + 1], Ok(<< >>))]
  /\ UNCHANGED << evVars, fcVars >>

\* the response is sent and the invocation's locals are gone
Respond(r) ==
  /\ req[r].pc = "done"
  /\ req' = [req EXCEPT ![r] = Idle]
  /\ UNCHANGED << db, evVars, fcVars >>

\* one step of the handler invocation in slot r
HandlerStep(r) ==
  \/ \E config \in CreateConfigs : create_project(r, config)
  \/ GenerateFind(r)
  \/ \E response \in ProviderResponses : GeminiReturns(r, response)
  \/ \E response \in ProviderResponses : OpenAIReturns(r, response)
  \/ GenerateUpdate(r)
  \/ \E plan_index \in PlanIndexArgs : SelectUpdateIndex(r, plan_index)
  \/ SelectFind(r)
  \/ SelectUpdate(r)
  \/ Respond(r)

\* Spec serves one request at a time, any sequence of them
Next == \E r \in Serving : HandlerStep(r)

Spec == Init /\ [][Next]_vars

(***************************************************************************)
(* Properties of the store and of the generation client (under Spec)       *)
(***************************************************************************)
AtRest == \A r \in Req : req[r].pc = "idle"

\* slot r runs, or has just ended, a generate_floor_plan_ai call
InGeneration(r) == req[r].op = "generate" /\ req[r].calls # << >>

CallsTo(r, provider) ==
  LET Is(c) == c.provider = provider IN SelectSeq(req[r].calls, Is)

PrimaryEnded(r) == req[r].primary # Pending

SecondaryEnded(r) == req[r].secondary # Pending

\* the attempt ended without an exception up to and including json.loads
AttemptSucceeded(response) ==
  /\ response.raised = "none"
  /\ json_loads(CleanFences(response.value)).raised = "none"

\* the decoded output cannot be converted into layouts
Unconvertible(response) ==
  /\ AttemptSucceeded(response)
  /\ ConvertLayouts(json_loads(CleanFences(response.value)).value).raised # "none"

\* C1 (as claimed): between requests, whatever create_project,
\* generate_floor_plans and select_plan calls have run and with whatever
\* plan_index, a stored project with a non-empty floorPlans has
\* 0 <= selectedPlanIndex < len(floorPlans).
C1_SelectedIndexInRange ==
  (AtRest /\ ~IsNone(db) /\ Len(db[1].floorPlans) > 0) =>
    /\ 0 <= db[1].selectedPlanIndex
    /\ db[1].selectedPlanIndex < Len(db[1].floorPlans)

\* C2: within one generate_floor_plan_ai call the secondary provider is
\* called only after the primary attempt has failed, never while it is in
\* progress and never when it succeeded; when the primary attempt fails the
\* secondary is called exactly once, with the same prompt, and no provider
\* is called again.
C2_FallbackOnlyAfterPrimaryFails ==
  \A r \in Req :
    InGeneration(r) =>
      LET calls == req[r].calls IN
      /\ calls[1].provider = "gemini"
      /\ Len(CallsTo(r, "gemini")) = 1
      /\ Len(calls) <= 2
      /\ req[r].pc = "gemini" => (~PrimaryEnded(r) /\ Len(calls) = 1)
      /\ (PrimaryEnded(r) /\ AttemptSucceeded(req[r].primary)) => Len(calls) = 1
      /\ Len(CallsTo(r, "openai")) > 0 =>
           (PrimaryEnded(r) /\ ~AttemptSucceeded(req[r].primary))
      /\ (PrimaryEnded(r) /\ ~AttemptSucceeded(req[r].primary)) =>
           /\ Len(calls) = 2
           /\ calls[2].provider = "openai"
           /\ calls[2].prompt = calls[1].prompt
           /\ calls[2].prompt = Prompt(req[r].project[1].config)

\* the primary failed on a fenced-free prose answer, the secondary was
\* called once for a project with cultural parameters and succeeded
C2_Witness ==
  \E r \in Req :
    /\ InGeneration(r)
    /\ req[r].pc = "done"
    /\ req[r].primary = Ok(Prose)
    /\ Len(CallsTo(r, "openai")) = 1
    /\ req[r].calls[2].prompt.culturalPreferences = VastuNorth
    /\ req[r].outcome.raised = "none"
    /\ Len(req[r].outcome.value) = 2

\* C3 (as claimed): any failure of the primary attempt, a response that
\* cannot be converted into layouts included, triggers the fallback, and
\* the same failure of the secondary attempt ends the call with
\* GenerationError; so a generate_floor_plan_ai call ends by returning
\* layouts or by raising GenerationError, never with another error.
C3_EveryFailureIsGenerationError ==
  \A r \in Req :
    (InGeneration(r) /\ req[r].pc = "done") =>
      /\ req[r].outcome.raised \in { "none", GenerationError }
      /\ (PrimaryEnded(r) /\ Unconvertible(req[r].primary)) =>
           Len(CallsTo(r, "openai")) = 1

\* both attempts of the call in slot r have failed
BothFailed(r) ==
  /\ InGeneration(r)
  /\ PrimaryEnded(r) /\ ~AttemptSucceeded(req[r].primary)
  /\ SecondaryEnded(r) /\ ~AttemptSucceeded(req[r].secondary)

\* C4: if both provider attempts fail, the call raises GenerationError
\* ("AI generation failed"), returns no layouts, and generate_floor_plans
\* writes nothing: the stored floorPlans, selectedPlanIndex,
\* complianceChecks and materials are those it read.
C4_BothFailRaisesAndWritesNothing ==
  \A r \in Req :
    BothFailed(r) =>
      /\ req[r].pc = "done"
      /\ req[r].outcome = Raise(GenerationError)
      /\ IsNone(req[r].floor_plans)
      /\ req[r].writes = 0
      /\ db = req[r].project

\* both attempts failed for a project that had plans, the second selected
C4_Witness ==
  \E r \in Req :
    /\ BothFailed(r)
    /\ req[r].secondary = Ok(Prose)
    /\ Len(db[1].floorPlans) = 2
    /\ db[1].selectedPlanIndex = 1
    /\ Len(db[1].complianceChecks) > 0
    /\ Len(db[1].materials) = 8

(***************************************************************************)
(* Concurrent requests: the handlers are coroutines of one event loop, so  *)
(* between two awaited calls of one invocation any other invocation may    *)
(* run.  SpecConcurrent interleaves the steps of the invocations in all    *)
(* slots.  Every layout list a provider sends here has MaxPlans layouts    *)
(* and every plan_index sent is within it.                                 *)
(***************************************************************************)
ConcurrentResponses == { Raise("APIError"), Ok(FencedJsonTwo) }

ConcurrentIndexArgs == 0..(Len(DocValue("doc:two").val.layouts) - 1)

ConcurrentStep(r) ==
  \/ \E config \in CreateConfigs : create_project(r, config)
  \/ GenerateFind(r)
  \/ \E response \in ConcurrentResponses : GeminiReturns(r, response)
  \/ \E response \in ConcurrentResponses : OpenAIReturns(r, response)
  \/ GenerateUpdate(r)
  \/ \E plan_index \in ConcurrentIndexArgs : SelectUpdateIndex(r, plan_index)
  \/ SelectFind(r)
  \/ SelectUpdate(r)
  \/ Respond(r)

ConcurrentNext == \E r \in Req : ConcurrentStep(r)

SpecConcurrent == Init /\ [][ConcurrentNext]_vars

\* C12 (as claimed): under any interleaving of concurrent select_plan and
\* generate_floor_plans requests on one project, once no request is in
\* flight the stored complianceChecks and materials are the results of
\* check_compliance and estimate_materials on the stored floorPlans at the
\* stored selectedPlanIndex.
C12_DerivedMatchSelected ==
  (AtRest /\ ~IsNone(db)) =>
    /\ check_compliance(db[1]) = Ok(db[1].complianceChecks)
    /\ estimate_materials(db[1]) = Ok(db[1].materials)

(***************************************************************************)
(* The evaluators on their own: SpecEval draws a project from bounded      *)
(* input sets and applies check_compliance, then estimate_materials, in    *)
(* the order both handlers call them.                                      *)
(***************************************************************************)
MaxRooms == 3

MaxRoomCount == 4

Room(name, area) == [name |-> name, area |-> area]

RoomPool ==
  { Room(Bedroom1, 80), Room(MasterBedroom, 85), Room(Bedroom1, 90),
    Room(LivingRoom, 200), Room(Kitchen, 85) }

RoomSeqs == UNION { [1..n -> RoomPool] : n \in 0..MaxRooms }

TotalAreas == { 0, 5, 1000, 1505 }

\* estimate_materials only counts the rooms: one room list per length
CountedRooms == { [i \in 1..n |-> Room(LivingRoom, 200)] : n \in 0..MaxRoomCount }

CulturalPool ==
  { None, Some(CulturalParameters(None)), Some(CulturalParameters(Some(<< >>))),
    Some(CulturalParameters(Some(VastuNorth))),
    Some(CulturalParameters(Some(VastuUpper))),
    Some(CulturalParameters(Some(Islamic))) }

ConfigPool ==
  { ProjectConfig(c, None) : c \in CulturalPool }
    \cup { ProjectConfig(None, Some(<< >>)), ProjectConfig(None, Some(NBC)) }

PlanPool ==
  { FloorPlanData(<< >>, 0),
    FloorPlanData(<< Room(Bedroom1, 80), Room(LivingRoom, 200) >>, 280),
    FloorPlanData(<< Room(Kitchen, 85) >>, 1000) }

PlanSeqs == UNION { [1..n -> PlanPool] : n \in 0..MaxPlans }

IndexRange == (0 - MaxPlans - 1)..(MaxPlans + 1)

IndexConfigs ==
  { ProjectConfig(None, None),
    ProjectConfig(Some(CulturalParameters(Some(VastuNorth))), None) }

\* the inputs: a project with one plan of any rooms, selected, under any
\* configuration; or with one plan of any room count and any total area;
\* or with any number of pooled plans and any stored index
EvalInputIs(project) ==
  \/ \E c \in ConfigPool, rs \in RoomSeqs :
       project = Project(c, << FloorPlanData(rs, 100 * AreaScale) >>, 0, << >>, << >>)
  \/ \E rs \in CountedRooms, a \in TotalAreas :
       project = Project(ProjectConfig(None, None), << FloorPlanData(rs, a) >>,
                         0, << >>, << >>)
  \/ \E c \in IndexConfigs, ps \in PlanSeqs, i \in IndexRange :
       project = Project(c, ps, i, << >>, << >>)

EvalInit ==
  /\ db = None
  /\ req = [r \in Req |-> Idle]
  /\ EvalInputIs(evProject)
  /\ evChecks = Pending
  /\ evMaterials = Pending
  /\ fcInput = NoFenceInput
  /\ fcOut = NoFenceOut

ApplyCheckCompliance ==
  /\ evChecks = Pending
  /\ evChecks' = check_compliance(evProject)
  /\ UNCHANGED << db, req, evProject, evMaterials, fcVars >>

ApplyEstimateMaterials ==
  /\ evChecks # Pending
  /\ evMaterials = Pending
  /\ evMaterials' = estimate_materials(evProject)
  /\ UNCHANGED << db, req, evProject, evChecks, fcVars >>

EvalNext == ApplyCheckCompliance \/ ApplyEstimateMaterials

SpecEval == EvalInit /\ [][EvalNext]_vars

(***************************************************************************)
(* Properties of the evaluators (checked under SpecEval)                   *)
(***************************************************************************)
\* check_compliance has returned, for a project that has plans
ChecksReturned ==
  /\ Len(evProject.floorPlans) > 0
  /\ evChecks.raised = "none"

\* estimate_materials has returned, for a project that has plans
MaterialsReturned ==
  /\ Len(evProject.floorPlans) > 0
  /\ evMaterials.raised = "none"

SelectedPlan == PyIndex(evProject.floorPlans, evProject.selectedPlanIndex)

SelectedRooms == SelectedPlan.rooms

IsPrefix(p, t) == Len(p) <= Len(t) /\ SubSeq(t, 1, Len(p)) = p

RoomRules == { "Minimum Bedroom Size", "Minimum Room Size" }

\* the finding at position i is the regulatory room finding of room i
IsRoomFindingOf(c, room) ==
  /\ c.category = "regulatory"
  /\ c.rule \in RoomRules
  /\ IsPrefix(room.name, c.message)

IsSetbackFinding(c) ==
  /\ c.category = "regulatory"
  /\ c.rule = "Building Setbacks"
  /\ c.status = "passed"

OfCategory(checks, cat) ==
  LET Is(c) == c.category = cat IN SelectSeq(checks, Is)

Rules(checks) == [i \in 1..Len(checks) |-> checks[i].rule]

\* C5: when the project's layout sequence is empty, check_compliance returns
\* an empty finding sequence and estimate_materials an empty material
\* sequence, neither raising, whatever selectedPlanIndex is.
C5_EmptyPlansGiveEmptyResults ==
  Len(evProject.floorPlans) = 0 =>
    /\ evChecks \in { Pending, Ok(<< >>) }
    /\ evMaterials \in { Pending, Ok(<< >>) }

C5_Witness ==
  /\ Len(evProject.floorPlans) = 0
  /\ evProject.selectedPlanIndex \notin { 0 }
  /\ evChecks = Ok(<< >>)
  /\ evMaterials = Ok(<< >>)

\* C6 (as claimed): for a layout with n rooms and no cultural parameters,
\* check_compliance returns n room findings in room order followed by one
\* passed "Building Setbacks" finding, n+1 findings in total.
C6_AsClaimed ==
  (ChecksReturned /\ IsNone(evProject.config.culturalParams)) =>
    LET n == Len(SelectedRooms) IN
    /\ Len(evChecks.value) = n + 1
    /\ \A i \in 1..n : IsRoomFindingOf(evChecks.value[i], SelectedRooms[i])
    /\ IsSetbackFinding(evChecks.value[n + 1])

\* C6 (amended): for a layout with n rooms and no cultural parameters,
\* check_compliance returns n room findings in room order, then one passed
\* "Building Setbacks" finding, then one passed "Doorway Width (ADA)"
\* accessibility finding: n+2 findings in total. For rooms
\* [Bedroom 1 (area 8), Living Room (area 20)] that is four findings:
\* failed with a suggestion, passed, passed setbacks, passed doorway width.
C6_NoCulturalFindings ==
  (ChecksReturned /\ IsNone(evProject.config.culturalParams)) =>
    LET n == Len(SelectedRooms) IN
    /\ Len(evChecks.value) = n + 2
    /\ \A i \in 1..n : IsRoomFindingOf(evChecks.value[i], SelectedRooms[i])
    /\ IsSetbackFinding(evChecks.value[n + 1])
    /\ evChecks.value[n + 2].category = "accessibility"
    /\ evChecks.value[n + 2].rule = "Doorway Width (ADA)"
    /\ evChecks.value[n + 2].status = "passed"
    /\ (SelectedRooms = << Room(Bedroom1, 80), Room(LivingRoom, 200) >> =>
          /\ Len(evChecks.value) = 4
          /\ evChecks.value[1].status = "failed"
          /\ ~IsNone(evChecks.value[1].suggestion)
          /\ evChecks.value[2].status = "passed"
          /\ evChecks.value[3].rule = "Building Setbacks"
          /\ evChecks.value[3].status = "passed")

C6_Witness ==
  /\ ChecksReturned
  /\ IsNone(evProject.config.culturalParams)
  /\ SelectedRooms = << Room(Bedroom1, 80), Room(LivingRoom, 200) >>
  /\ Len(evChecks.value) = 4

\* C7: check_compliance emits exactly one regulatory room finding per room:
\* failed, rule "Minimum Bedroom Size", with a non-empty suggestion, iff the
\* room name contains "bedroom" (case-insensitive) and its area is strictly
\* below 9; otherwise passed, rule "Minimum Room Size", no suggestion.
C7_OneRoomFindingPerRoom ==
  ChecksReturned =>
    LET n == Len(SelectedRooms)
        small(r) == Contains(bedroom, lower(r.name)) /\ r.area < 9 * AreaScale
    IN
    /\ Len(evChecks.value) >= n
    /\ Cardinality({ i \in 1..Len(evChecks.value) :
                       evChecks.value[i].rule \in RoomRules }) = n
    /\ \A i \in 1..n :
         LET c == evChecks.value[i]
             r == SelectedRooms[i]
         IN /\ IsRoomFindingOf(c, r)
            /\ small(r) =>
                 /\ c.status = "failed"
                 /\ c.rule = "Minimum Bedroom Size"
                 /\ ~IsNone(c.suggestion)
                 /\ Len(c.suggestion[1]) > 0
            /\ ~small(r) =>
                 /\ c.status = "passed"
                 /\ c.rule = "Minimum Room Size"
                 /\ IsNone(c.suggestion)

\* an upper-case small bedroom fails, a bedroom of exactly 9 passes and a
\* small room that is no bedroom passes, in one result
C7_Witness ==
  /\ ChecksReturned
  /\ SelectedRooms = << Room(MasterBedroom, 85), Room(Bedroom1, 90), Room(Kitchen, 85) >>
  /\ evChecks.value[1].status = "failed"
  /\ evChecks.value[2].status = "passed"
  /\ evChecks.value[3].status = "passed"

CategoryRank(cat) ==
  CASE cat = "regulatory" -> 1
    [] cat = "cultural" -> 2
    [] cat = "accessibility" -> 3
    [] OTHER -> 0

\* C8: in every result of check_compliance all regulatory findings precede
\* all cultural findings, which precede all accessibility findings; the room
\* findings come first, in room order, and "Building Setbacks" is the last
\* regulatory finding.
C8_CategoryOrder ==
  ChecksReturned =>
    LET cs == evChecks.value
        n  == Len(SelectedRooms)
    IN
    /\ \A i, j \in 1..Len(cs) :
         i < j => /\ CategoryRank(cs[i].category) >= 1
                  /\ CategoryRank(cs[i].category) <= CategoryRank(cs[j].category)
    /\ Len(cs) >= n + 1
    /\ \A i \in 1..n : IsRoomFindingOf(cs[i], SelectedRooms[i])
    /\ IsSetbackFinding(cs[n + 1])
    /\ \A i \in (n + 2)..Len(cs) : cs[i].category # "regulatory"

C8_Witness ==
  /\ ChecksReturned
  /\ Len(SelectedRooms) >= 2
  /\ SelectedRooms[1] # SelectedRooms[2]
  /\ Len(OfCategory(evChecks.value, "cultural")) = 2
  /\ Len(OfCategory(evChecks.value, "accessibility")) = 1

\* C9: cultural findings appear only when culturalParams.type is present and
\* contains "vastu" (case-insensitive): then a passed "Main Entrance (Vastu)"
\* finding, preceded by a passed "Kitchen Placement (Vastu)" finding iff some
\* room name contains "kitchen" (case-insensitive); otherwise none.
C9_CulturalGating ==
  ChecksReturned =>
    LET cult  == OfCategory(evChecks.value, "cultural")
        cp    == evProject.config.culturalParams
        isV   == /\ ~IsNone(cp)
                 /\ ~IsNone(cp[1].type)
                 /\ Contains(vastu, lower(cp[1].type[1]))
        hasK  == \E i \in 1..Len(SelectedRooms) :
                    Contains(kitchen, lower(SelectedRooms[i].name))
    IN
    /\ \A i \in 1..Len(cult) : cult[i].status = "passed"
    /\ (isV /\ hasK) =>
         Rules(cult) = << "Kitchen Placement (Vastu)", "Main Entrance (Vastu)" >>
    /\ (isV /\ ~hasK) => Rules(cult) = << "Main Entrance (Vastu)" >>
    /\ ~isV => cult = << >>

C9_Witness ==
  /\ ChecksReturned
  /\ evProject.config.culturalParams = Some(CulturalParameters(Some(VastuUpper)))
  /\ SelectedRooms = << Room(LivingRoom, 200), Room(Kitchen, 85) >>
  /\ Len(OfCategory(evChecks.value, "cultural")) = 2

MaterialNames ==
  << "Ready-Mix Concrete (M25)", "Clay Bricks (Standard)", "TMT Steel Bars (Fe500)",
     "Cement (OPC 53 Grade)", "Ceramic Floor Tiles (600x600mm)",
     "Interior Emulsion Paint", "Wooden Doors with Frame", "UPVC Windows with Glass" >>

UnitCosts == << 5500, 8, 65, 450, 450, 350, 15000, 8000 >>

\* the claimed quantities, in thousandths, for an area of a tenths and R rooms:
\* A*0.15, R*10*3*50, A*8, A*0.4, A, (A*3)/12, R+2, R*2
ClaimedQuantities(a, R) ==
  << a * 15, R * 1500 * 1000, a * 800, a * 40, a * 100, a * 25,
     (R + 2) * 1000, R * 2000 >>

\* C10: for a selected layout of total area A with R rooms estimate_materials
\* returns exactly eight lines, in the order concrete, bricks, steel, cement,
\* tiles, paint, doors, windows, with the claimed quantities and with costs
\* quantity times 5500, 8, 65, 450, 450, 350, 15000, 8000; for A=100, R=4 the
\* quantities are 15, 6000, 800, 40, 100, 25, 6, 8 and the costs 82500,
\* 48000, 52000, 18000, 45000, 8750, 90000, 64000.
C10_MaterialFormulas ==
  MaterialsReturned =>
    LET ms == evMaterials.value
        a  == SelectedPlan.totalArea
        R  == Len(SelectedRooms)
    IN
    /\ Len(ms) = 8
    /\ \A k \in 1..8 :
         /\ ms[k].name = MaterialNames[k]
         /\ ms[k].quantity = ClaimedQuantities(a, R)[k]
         /\ ms[k].estimatedCost = ms[k].quantity * UnitCosts[k]
    /\ (a = 100 * AreaScale /\ R = 4) =>
         /\ [k \in 1..8 |-> ms[k].quantity] =
              << 15000, 6000000, 800000, 40000, 100000, 25000, 6000, 8000 >>
         /\ [k \in 1..8 |-> ms[k].estimatedCost] =
              << 82500000, 48000000, 52000000, 18000000, 45000000, 8750000,
                 90000000, 64000000 >>

C10_Witness ==
  /\ MaterialsReturned
  /\ SelectedPlan.totalArea = 100 * AreaScale
  /\ Len(SelectedRooms) = 4
  /\ evMaterials.value[6].quantity = 25000

(***************************************************************************)
(* The response cleaning on its own: SpecFence draws a content and the     *)
(* prose around a fence from bounded sets and hands the content to the     *)
(* client unwrapped, in a json-tagged fence and in a bare fence.           *)
(***************************************************************************)
MaxContentLen == 3

ContentAlphabet == { BackQuote, "\n", "x", "doc:one" }

FencedDoc == Fence \o << "doc:one" >> \o Fence

Contents ==
  UNION { [1..n -> ContentAlphabet] : n \in 0..MaxContentLen }
    \cup { QuotedFenceDoc, FencedDoc }

ProseAround ==
  { [before |-> << >>, after |-> << >>],
    [before |-> << "H","i",":","\n" >>, after |-> << "\n","D","o","n","e" >>] }

\* the text a provider sends for the content in one of the three forms
ResponseText(form, in) ==
  CASE form = "plain" -> in.content
    [] form = "json"  -> in.before \o FenceJson \o << "\n" >> \o in.content
                           \o << "\n" >> \o Fence \o in.after
    [] form = "bare"  -> in.before \o Fence \o << "\n" >> \o in.content
                           \o << "\n" >> \o Fence \o in.after

FenceInit ==
  /\ db = None
  /\ req = [r \in Req |-> Idle]
  /\ evProject = Project(ProjectConfig(None, None), << >>, 0, << >>, << >>)
  /\ evChecks = Pending
  /\ evMaterials = Pending
  /\ \E c \in Contents, p \in ProseAround :
       fcInput = [content |-> c, before |-> p.before, after |-> p.after]
  /\ fcOut = NoFenceOut

\* the client receives the content in one form: the text is cleaned, and
\* what is left is given to json.loads
ReceiveText(form) ==
  /\ fcOut[form] = Pending
  /\ fcOut' = [fcOut EXCEPT ![form] =
       [raised  |-> Attempt(Ok(ResponseText(form, fcInput))).raised,
        value   |-> Attempt(Ok(ResponseText(form, fcInput))).value,
        payload |-> CleanFences(ResponseText(form, fcInput))]]
  /\ UNCHANGED << db, req, evVars, fcInput >>

FenceNext == \E form \in Forms : ReceiveText(form)

SpecFence == FenceInit /\ [][FenceNext]_vars

(***************************************************************************)
(* Properties of the response cleaning (checked under SpecFence)           *)
(***************************************************************************)
AllFormsReceived == \A f \in Forms : fcOut[f] # Pending

\* C11 (as claimed): for every model output text the payload handed to the
\* JSON parser is the same whether the content arrives unwrapped, in a
\* json-tagged fence or in a bare fence, prose around the fence or not, so
\* the three forms parse to the same result.  Payloads are compared up to
\* surrounding whitespace, which json.loads ignores.
C11_FormsParseAlike ==
  AllFormsReceived =>
    \A f, g \in Forms :
      /\ strip(fcOut[f].payload) = strip(fcOut[g].payload)
      /\ fcOut[f].raised = fcOut[g].raised
      /\ fcOut[f].value = fcOut[g].value

====
